---- MODULE Spec2Model ----
(***************************************************************************)
(* The cy.session command of packages/driver/src/cy/commands/sessions:     *)
(* the session registry, the create / restore / validate / recreate        *)
(* workflow and the queue failure handlers it installs.                    *)
(*                                                                         *)
(* The model covers runs with experimentalSessionAndOrigin enabled, a      *)
(* valid id and a valid options object.  One session command runs at a     *)
(* time (the command queue is single-threaded).                            *)
(***************************************************************************)
EXTENDS Integers, Sequences, FiniteSets, TLC

\* ------------------------------------------------------------------ bounds
MaxNested == 1    \* commands a validate routine enqueues

\* ------------------------------------------------------------------ values
Ids == {"login"}

\* Source texts of routines, as character sequences.
TextA == <<"a">>
TextB == <<"b">>
TextV == <<"v">>
TextW == <<"w">>

Undefined == [kind |-> "undefined", text |-> <<>>]
Fn(t) == [kind |-> "function", text |-> t]
Str(t) == [kind |-> "string", text |-> t]

SetupArgs == {Fn(TextA), Fn(TextB), Undefined}
ValidateArgs == {Undefined, Fn(TextV), Fn(TextW)}

NoStored == [found |-> FALSE, setup |-> <<>>]
Stored(t) == [found |-> TRUE, setup |-> t]

NoCall == [id |-> "", setup |-> Undefined, validate |-> Undefined, cacheAcrossSpecs |-> FALSE]

NoFlags == {}
NoErr == [kind |-> "none", reason |-> "", flags |-> NoFlags, phase |-> "", isRecovered |-> FALSE]
Err(k, r) == [NoErr EXCEPT !.kind = k, !.reason = r]

NoHandler == [kind |-> "null", step |-> ""]
Handler(k, s) == [kind |-> k, step |-> s]

\* ---------------------------------------------------------- pure helpers
IsWhite(c) == c \in {" ", "\t", "\n"}

RECURSIVE TrimLeft(_)
TrimLeft(s) == IF s # <<>> /\ IsWhite(Head(s)) THEN TrimLeft(Tail(s)) ELSE s

RECURSIVE TrimRight(_)
TrimRight(s) ==
    IF s # <<>> /\ IsWhite(s[Len(s)]) THEN TrimRight(SubSeq(s, 1, Len(s) - 1)) ELSE s

\* String.prototype.trim
Trim(s) == TrimRight(TrimLeft(s))

\* Function.prototype.toString / String.prototype.toString
toString(r) == r.text

\* !!x of a routine slot
Truthy(r) == r.kind # "undefined"

isString(r) == r.kind = "string"
isFunction(r) == r.kind = "function"

\* ------------------------------------------------------------------- state
VARIABLES
    activeSessions,      \* Cypress.state('activeSessions'): id -> session record
    registeredSessions,  \* sessionsManager.registeredSessions
    store,               \* the backend's saved sessions (get:session / save:session)
    browser,             \* session data currently applied in the browser
    pc,                  \* the queued step of the session command that runs next
    call,                \* arguments of the session command in progress (or last made)
    step,                \* 'create' | 'restore' | 'recreate'
    sessionStatus,       \* last setSessionLogStatus
    onQueueFailed,       \* cy.state('onQueueFailed')
    err,                 \* the error raised or intercepted last in this call
    queue,               \* commands of the validation in progress
    index,               \* queue.index (0-based)
    returnVal,           \* validateSession's returnVal
    caughtCommandErr,    \* validateSession's caughtCommandErr
    commandToRunAfterValidation, \* chainerId of _commandToRunAfterValidation, -1 unset
    isValidSession,      \* value yielded by validateSession
    setupRuns,           \* setup invocations in this call
    validateRuns,        \* validate invocations in this call
    path,                \* workflow phases entered in this call
    applied,             \* the stored state was applied to the browser in this call
    getResult,           \* what sessions.getSession gave in this call
    before,              \* what the session command in progress found when it was called
    signal,              \* how the validate routine run last in this call behaved
    restoredBad,         \* the restored session's validation signalled a failure
    failedAt             \* queue.index when the validation handler was called, -1 if not

registry == <<activeSessions, registeredSessions>>
validation == <<queue, index, returnVal, caughtCommandErr, commandToRunAfterValidation,
               failedAt>>
history == <<setupRuns, validateRuns, path, applied, getResult, before, signal,
             restoredBad>>
vars == <<activeSessions, registeredSessions, store, browser, pc, call, step,
          sessionStatus, onQueueFailed, err, queue, index, returnVal,
          caughtCommandErr, commandToRunAfterValidation, isValidSession,
          setupRuns, validateRuns, path, applied, getResult, before, signal,
          restoredBad, failedAt>>

NoSession == [setup |-> Undefined, validate |-> Undefined, cacheAcrossSpecs |-> FALSE,
              hydrated |-> FALSE, data |-> "null"]
NoBefore == [present |-> FALSE, registered |-> FALSE, session |-> NoSession,
             repeated |-> FALSE]

\* no session command is running: none was made yet, or the last one completed,
\* failed, raised, or was left behind by a queue whose cursor is outside it
Quiescent == pc \in {"idle", "completed", "failed", "raised", "outside"}

Init ==
    /\ activeSessions = << >>
    /\ registeredSessions = {}
    /\ store \in [Ids -> {NoStored, Stored(TextA), Stored(TextB)}]
    /\ browser = "cleared"
    /\ pc = "idle"
    /\ call = NoCall
    /\ step = ""
    /\ sessionStatus = ""
    /\ onQueueFailed = NoHandler
    /\ err = NoErr
    /\ queue = << >>
    /\ index = 0
    /\ returnVal = "undefined"
    /\ caughtCommandErr = FALSE
    /\ commandToRunAfterValidation = -1
    /\ isValidSession = TRUE
    /\ setupRuns = 0
    /\ validateRuns = 0
    /\ path = << >>
    /\ applied = FALSE
    /\ getResult = "none"
    /\ before = NoBefore
    /\ signal = "none"
    /\ restoredBad = FALSE
    /\ failedAt = -1

\* ---------------------------------------------------------------- registry
\* sessionsManager.getActiveSession
hasActiveSession(id) == id \in DOMAIN activeSessions
getActiveSession(id) == activeSessions[id]

\* sessions.defineSession
defineSession(setup, validate, cacheAcrossSpecs) ==
    [setup |-> setup, validate |-> validate, cacheAcrossSpecs |-> cacheAcrossSpecs,
     hydrated |-> FALSE, data |-> "null"]

setActiveSession(id, session) ==
    [i \in DOMAIN activeSessions \cup {id} |->
        IF i = id THEN session ELSE activeSessions[i]]

hasUniqSetupDefinition(session, setup) ==
    Trim(toString(session.setup)) # Trim(toString(setup))

hasUniqValidateDefinition(session, validate) ==
    \/ Truthy(session.validate) # Truthy(validate)
    \/ /\ Truthy(session.validate)
       /\ Truthy(validate)
       /\ Trim(toString(session.validate)) # Trim(toString(validate))

\* mutant: the persistence flag is not compared
hasUniqPersistenceIgnored(session, cacheAcrossSpecs) == FALSE

hasUniqPersistence(session, cacheAcrossSpecs) ==
    session.cacheAcrossSpecs # cacheAcrossSpecs

UniqFlags(session, c) ==
    {f \in {"hasUniqSetupDefinition", "hasUniqValidateDefinition", "hasUniqPersistence"} :
        \/ f = "hasUniqSetupDefinition" /\ hasUniqSetupDefinition(session, c.setup)
        \/ f = "hasUniqValidateDefinition" /\ hasUniqValidateDefinition(session, c.validate)
        \/ f = "hasUniqPersistence" /\ hasUniqPersistence(session, c.cacheAcrossSpecs)}

\* mutant: a missing setup passes the check
wrongArgSetupOnlyNonFunction(setup) == Truthy(setup) /\ ~isFunction(setup)

\* the setup argument check
wrongArgSetup(setup) == ~Truthy(setup) \/ ~isFunction(setup)

\* mutant: any second definition of a registered id is a duplicate
duplicateIdWhenRegistered(isRegisteredSessionForSpec, session, c) ==
    isRegisteredSessionForSpec

\* the duplicateId check of a record that exists
duplicateId(isRegisteredSessionForSpec, session, c) ==
    isRegisteredSessionForSpec /\ UniqFlags(session, c) # {}

\* mutant: the textual placeholder is kept
replaceSetupNever(session, setup) == session.setup

\* a cross-spec record's textual setup / validate are replaced by the supplied routines
replaceSetup(session, setup) ==
    IF session.cacheAcrossSpecs /\ isString(session.setup) THEN setup ELSE session.setup

replaceValidate(session, validate) ==
    IF session.cacheAcrossSpecs /\ Truthy(session.validate) /\ isString(session.validate)
    THEN validate ELSE session.validate

Raise(e) ==
    /\ pc' = "raised"
    /\ err' = e
    /\ UNCHANGED registry

\* cy.session(id, setup, options), up to the queued workflow
session(id, setup, validate, cacheAcrossSpecs) ==
    LET c == [id |-> id, setup |-> setup, validate |-> validate,
              cacheAcrossSpecs |-> cacheAcrossSpecs]
        isRegisteredSessionForSpec == id \in registeredSessions
    IN
    /\ Quiescent
    /\ call' = c
    /\ before' = [present |-> hasActiveSession(id),
                  registered |-> isRegisteredSessionForSpec,
                  session |-> IF hasActiveSession(id) THEN getActiveSession(id)
                              ELSE NoSession,
                  repeated |-> call = c /\ pc = "completed"]
    /\ signal' = "none"
    /\ restoredBad' = FALSE
    /\ setupRuns' = 0
    /\ validateRuns' = 0
    /\ path' = << >>
    /\ applied' = FALSE
    /\ getResult' = "none"
    /\ isValidSession' = TRUE
    /\ step' = ""
    /\ sessionStatus' = ""
    /\ queue' = << >>
    /\ index' = 0
    /\ returnVal' = "undefined"
    /\ caughtCommandErr' = FALSE
    /\ commandToRunAfterValidation' = -1
    /\ failedAt' = -1
    /\ UNCHANGED <<store, browser, onQueueFailed>>
    /\ IF wrongArgSetup(setup)
       THEN Raise(Err("wrongArgSetup", ""))
       ELSE IF hasActiveSession(id)
       THEN LET s == getActiveSession(id) IN
            IF duplicateId(isRegisteredSessionForSpec, s, c)
            THEN Raise([Err("duplicateId", "") EXCEPT !.flags = UniqFlags(s, c)])
            ELSE /\ activeSessions' = setActiveSession(id,
                        [s EXCEPT !.setup = replaceSetup(s, setup),
                                  !.validate = replaceValidate(s, validate)])
                 /\ pc' = "resolving"
                 /\ err' = NoErr
                 /\ UNCHANGED registeredSessions
       ELSE IF isRegisteredSessionForSpec
            THEN Raise([Err("duplicateId", "") EXCEPT !.flags = {"id"}])
            ELSE /\ activeSessions' = setActiveSession(id,
                        defineSession(setup, validate, cacheAcrossSpecs))
                 /\ registeredSessions' = registeredSessions \cup {id}
                 /\ pc' = "resolving"
                 /\ err' = NoErr

Session ==
    \E id \in Ids, setup \in SetupArgs, validate \in ValidateArgs, cache \in BOOLEAN :
        session(id, setup, validate, cache)

\* ------------------------------------------------------------ spec boundary
\* A new spec file starts: the registered set is reset, the run-wide records stay
\* in activeSessions unhydrated, a cacheAcrossSpecs record keeps the text of its
\* routines as a placeholder, and the backend drops the saved data of the others.
serializeRoutine(r) == IF Truthy(r) THEN Str(toString(r)) ELSE r

carryOver(s) ==
    IF s.cacheAcrossSpecs
    THEN [s EXCEPT !.setup = serializeRoutine(s.setup),
                   !.validate = serializeRoutine(s.validate),
                   !.hydrated = FALSE]
    ELSE [s EXCEPT !.hydrated = FALSE]

SpecBoundary ==
    /\ Quiescent
    /\ activeSessions' = [i \in DOMAIN activeSessions |-> carryOver(activeSessions[i])]
    /\ registeredSessions' = {}
    /\ store' = [i \in Ids |->
                    IF hasActiveSession(i) /\ ~activeSessions[i].cacheAcrossSpecs
                    THEN NoStored ELSE store[i]]
    /\ browser' = "cleared"
    /\ pc' = "specStart"
    /\ call' = NoCall
    /\ step' = ""
    /\ sessionStatus' = ""
    /\ onQueueFailed' = NoHandler
    /\ err' = NoErr
    /\ isValidSession' = TRUE
    /\ setupRuns' = 0
    /\ validateRuns' = 0
    /\ path' = << >>
    /\ applied' = FALSE
    /\ getResult' = "none"
    /\ before' = NoBefore
    /\ signal' = "none"
    /\ restoredBad' = FALSE
    /\ queue' = << >>
    /\ index' = 0
    /\ returnVal' = "undefined"
    /\ caughtCommandErr' = FALSE
    /\ commandToRunAfterValidation' = -1
    /\ failedAt' = -1

\* mutant: the hook registers every record
runStartRegistersAll(s) == TRUE

\* Cypress.on('run:start'): the ids the hook registers
runStartRegisters(s) == s.cacheAcrossSpecs

RunStart ==
    /\ pc = "specStart"
    /\ registeredSessions' = registeredSessions \cup
            {i \in DOMAIN activeSessions : runStartRegisters(activeSessions[i])}
    /\ pc' = "idle"
    /\ UNCHANGED <<activeSessions, store, browser, call, step, sessionStatus,
                   onQueueFailed, err, validation, isValidSession, history>>

\* Cypress.on('test:before:run:async')
TestBeforeRun ==
    /\ Quiescent
    /\ \E testIsolation \in {"on", "off"} :
          browser' = IF testIsolation = "off" THEN browser ELSE "cleared"
    /\ UNCHANGED <<registry, store, pc, call, step, sessionStatus, onQueueFailed,
                   err, validation, isValidSession, history>>

\* ------------------------------------------------------------ command queue
Cmd(c, n, rw) ==
    [chainerId |-> c, name |-> n, restoreWithin |-> rw, skipped |-> FALSE,
     subject |-> "undefined"]

\* the step the queue runs at cursor i
commandAt(commands, i) ==
    IF i >= 0 /\ i < Len(commands) THEN commands[i + 1].name ELSE "outside"

Min(S) == CHOOSE x \in S : \A y \in S : x <= y

\* _.findIndex over the queue for _commandToRunAfterValidation's chainerId
findIndex(commands, target) ==
    LET hits == {i \in 1..Len(commands) : target # -1 /\ commands[i].chainerId = target}
    IN IF hits = {} THEN -1 ELSE Min(hits) - 1

\* mutant: the loop skips the restore-within commands as well
skipCommandsAll(commands, from, to) ==
    [i \in 1..Len(commands) |->
        IF from <= i - 1 /\ i - 1 < to
        THEN [commands[i] EXCEPT !.skipped = TRUE]
        ELSE commands[i]]

\* the skip loop: for (i = cy.queue.index; i < index; i++)
skipCommands(commands, from, to) ==
    [i \in 1..Len(commands) |->
        IF from <= i - 1 /\ i - 1 < to /\ ~commands[i].restoreWithin
        THEN [commands[i] EXCEPT !.skipped = TRUE]
        ELSE commands[i]]

statusInProgress(s) ==
    CASE s = "create" -> "creating" [] s = "restore" -> "restoring"
      [] s = "recreate" -> "recreating"

statusComplete(s) ==
    CASE s = "create" -> "created" [] s = "restore" -> "restored"
      [] s = "recreate" -> "recreated"

\* mutant: the error is marked recovered in every phase
enhanceErrAlwaysRecovered(e, s) ==
    [e EXCEPT !.phase = statusComplete(s), !.isRecovered = TRUE]

\* enhanceErr: the error it returns
enhanceErr(e, s) ==
    IF s = "restore"
    THEN [e EXCEPT !.phase = "restored", !.isRecovered = TRUE]
    ELSE [e EXCEPT !.phase = statusComplete(s)]

\* mutant: the handler stays installed
uninstallNever(h) == h

\* Cypress.state('onQueueFailed', null) of enhanceErr and of the resume step
uninstall(h) == NoHandler

\* a step at the cursor fails: the queue hands the error to the handler h it finds in
\* cy.state('onQueueFailed') and goes on at queue.index when the handler returns the
\* error recovered; target is the chainerId of _commandToRunAfterValidation
onFail(h, commands, cursor, target, e, status) ==
    CASE h.kind = "null" ->
            /\ err' = e
            /\ sessionStatus' = status
            /\ pc' = "failed"
            /\ onQueueFailed' = h
            /\ queue' = commands
            /\ index' = cursor
            /\ UNCHANGED <<caughtCommandErr, failedAt>>
      [] h.kind = "create" ->
            /\ err' = [e EXCEPT !.phase = "creating"]
            /\ sessionStatus' = "failed"
            /\ pc' = "failed"
            /\ onQueueFailed' = h
            /\ queue' = commands
            /\ index' = cursor
            /\ UNCHANGED <<caughtCommandErr, failedAt>>
      [] h.kind = "validate" /\ h.step = "restore" ->
            LET i == findIndex(commands, target) IN
            /\ queue' = skipCommands(commands, cursor, i)
            /\ index' = i
            /\ failedAt' = cursor
            /\ caughtCommandErr' = TRUE
            /\ err' = enhanceErr([e EXCEPT !.isRecovered = TRUE], "restore")
            /\ onQueueFailed' = uninstall(h)
            /\ sessionStatus' = status
            /\ pc' = commandAt(commands, i)
      [] h.kind = "validate" /\ h.step # "restore" ->
            /\ err' = enhanceErr(e, h.step)
            /\ sessionStatus' = "failed"
            /\ onQueueFailed' = uninstall(h)
            /\ failedAt' = cursor
            /\ pc' = "failed"
            /\ queue' = commands
            /\ index' = cursor
            /\ UNCHANGED caughtCommandErr

\* a step of the queue as it stands fails
Fail(e, status) ==
    onFail(onQueueFailed, queue, index, commandToRunAfterValidation, e, status)

UserError == Err("userError", "")
CollaboratorError(what) == Err("collaborator", what)

theSession == activeSessions[call.id]

\* ----------------------------------------------------------------- workflow
\* mutants: the saved session is never used; it is used whatever its setup text
storedSessionNeverMatches(stored, s) == FALSE
storedSessionFound(stored, s) == stored.found

\* the saved session is usable: it exists and its setup text is the record's
storedSessionMatches(stored, s) ==
    stored.found /\ stored.setup = toString(s.setup)

\* the first queued step of the command: lines 524-539
Resolve ==
    /\ pc = "resolving"
    /\ path' = Append(path, "Resolving")
    /\ IF ~theSession.hydrated
       THEN \E getFails \in BOOLEAN :
              LET serverStoredSession == IF getFails THEN NoStored ELSE store[call.id]
              IN
              /\ getResult' = IF getFails THEN "error"
                              ELSE IF ~serverStoredSession.found THEN "notFound"
                              ELSE IF serverStoredSession.setup = toString(call.setup)
                                   THEN "match" ELSE "mismatch"
              /\ IF storedSessionMatches(serverStoredSession, theSession)
                 THEN /\ activeSessions' = setActiveSession(call.id,
                            [theSession EXCEPT !.data = "stored", !.hydrated = TRUE])
                      /\ pc' = "restoreWorkflow"
                      /\ UNCHANGED step
                 ELSE /\ step' = "create"
                      /\ pc' = "createWorkflow"
                      /\ UNCHANGED activeSessions
       ELSE /\ getResult' = "notCalled"
            /\ pc' = "restoreWorkflow"
            /\ UNCHANGED <<activeSessions, step>>
    /\ UNCHANGED <<registeredSessions, store, browser, call, sessionStatus, onQueueFailed,
                   err, validation, isValidSession, setupRuns, validateRuns, applied,
                   before, signal, restoredBad>>

\* createSessionWorkflow, first step: lines 466-473
CreateWorkflow ==
    /\ pc = "createWorkflow"
    /\ path' = Append(path, "Creating")
    /\ \E clearFails \in BOOLEAN :
          IF clearFails
          THEN /\ Fail(CollaboratorError("clearCurrentSessionData"), statusInProgress(step))
               /\ UNCHANGED browser
          ELSE /\ sessionStatus' = statusInProgress(step)
               /\ browser' = "cleared"
               /\ pc' = "setup"
               /\ UNCHANGED <<err, onQueueFailed, queue, index, caughtCommandErr, failedAt>>
    /\ UNCHANGED <<registry, store, call, step, returnVal, commandToRunAfterValidation,
                   isValidSession, setupRuns, validateRuns, applied, getResult,
                   before, signal, restoredBad>>

\* createSession, first step: lines 215-241
Setup ==
    /\ pc = "setup"
    /\ onQueueFailed' = Handler("create", "")
    /\ setupRuns' = setupRuns + 1
    /\ \E setupFails \in BOOLEAN :
          IF setupFails \/ ~isFunction(theSession.setup)
          THEN /\ err' = [UserError EXCEPT !.phase = "creating"]
               /\ sessionStatus' = "failed"
               /\ pc' = "failed"
               /\ UNCHANGED browser
          ELSE /\ browser' = "session"
               /\ pc' = "capture"
               /\ UNCHANGED <<err, sessionStatus>>
    /\ UNCHANGED <<registry, store, call, step, validation, isValidSession,
                   validateRuns, path, applied, getResult, before, signal, restoredBad>>

\* createSession, second step: lines 242-262
Capture ==
    /\ pc = "capture"
    /\ onQueueFailed' = NoHandler
    /\ \E snapshotFails \in BOOLEAN, saveFails \in BOOLEAN :
          IF snapshotFails
          THEN /\ err' = CollaboratorError("getCurrentSessionData")
               /\ pc' = "failed"
               /\ UNCHANGED <<activeSessions, store>>
          ELSE /\ activeSessions' = setActiveSession(call.id,
                        [theSession EXCEPT !.data = "captured", !.hydrated = TRUE])
               /\ IF saveFails
                  THEN /\ err' = CollaboratorError("saveSessionData")
                       /\ pc' = "failed"
                       /\ UNCHANGED store
                  ELSE /\ store' = [store EXCEPT
                                      ![call.id] = Stored(toString(theSession.setup))]
                       /\ pc' = "validate"
                       /\ UNCHANGED err
    /\ UNCHANGED <<registeredSessions, browser, call, step, sessionStatus, validation,
                   isValidSession, history>>

\* restoreSessionWorkflow, first step: lines 491-497 and restoreSession
RestoreWorkflow ==
    /\ pc = "restoreWorkflow"
    /\ path' = Append(path, "Restoring")
    /\ step' = "restore"
    /\ \E clearFails \in BOOLEAN, setFails \in BOOLEAN :
          IF clearFails
          THEN /\ Fail(CollaboratorError("clearCurrentSessionData"), "restoring")
               /\ UNCHANGED <<browser, applied>>
          ELSE IF setFails
          THEN /\ Fail(CollaboratorError("setSessionData"), "restoring")
               /\ browser' = "cleared"
               /\ UNCHANGED applied
          ELSE /\ sessionStatus' = "restoring"
               /\ browser' = "session"
               /\ applied' = TRUE
               /\ pc' = "validate"
               /\ UNCHANGED <<err, onQueueFailed, queue, index, caughtCommandErr, failedAt>>
    /\ UNCHANGED <<registry, store, call, returnVal, commandToRunAfterValidation,
                   isValidSession, setupRuns, validateRuns, getResult, before, signal,
                   restoredBad>>

\* --------------------------------------------------------------- validation
ReturnVals == {"undefined", "cy", "resolves", "resolvesFalse", "rejectsError",
               "rejectsOther", "false", "other"}

\* $utils.isPromiseLike
isPromiseLike(rv) == rv \in {"resolves", "resolvesFalse", "rejectsError", "rejectsOther"}

\* the commands a validate routine enqueues, by their restore-within flags
NestedCommands ==
    UNION {[1..n -> BOOLEAN] : n \in 0..MaxNested}

\* mutant: every validation is followed by the restore workflow's last step
afterValidationRestore(s) == "afterRestore"

afterValidation(s) == IF s = "restore" THEN "afterRestore" ELSE "afterCreate"

\* validateSession up to the queued validation steps: lines 285-351, 390-396, 456.
\* The handler is installed before the two steps are enqueued; when enqueuing the
\* second throws, the step at the cursor fails with _commandToRunAfterValidation unset.
Validate ==
    /\ pc = "validate"
    /\ path' = Append(path, "Validating")
    /\ IF ~Truthy(theSession.validate)
       THEN /\ isValidSession' = TRUE
            /\ pc' = afterValidation(step)
            /\ UNCHANGED <<onQueueFailed, validation, err, sessionStatus>>
       ELSE \E enqueueFails \in BOOLEAN :
              LET validateCmd == [Cmd(0, "validate", FALSE) EXCEPT !.subject = "other"]
              IN
              /\ returnVal' = "undefined"
              /\ UNCHANGED isValidSession
              /\ IF enqueueFails
                 THEN /\ onFail(Handler("validate", step),
                                <<validateCmd, Cmd(1, "then1", FALSE)>>, 0, -1,
                                CollaboratorError("then"), sessionStatus)
                      /\ UNCHANGED commandToRunAfterValidation
                 ELSE /\ onQueueFailed' = Handler("validate", step)
                      /\ caughtCommandErr' = FALSE
                      /\ queue' = <<validateCmd, Cmd(1, "then1", FALSE),
                                    Cmd(2, "then2", FALSE)>>
                      /\ index' = 1
                      /\ commandToRunAfterValidation' = 2
                      /\ failedAt' = -1
                      /\ pc' = "then1"
                      /\ UNCHANGED <<err, sessionStatus>>
    /\ UNCHANGED <<registry, store, browser, call, step, setupRuns,
                   validateRuns, applied, getResult, before, signal, restoredBad>>

insertAfter(commands, i, new) ==
    SubSeq(commands, 1, i + 1) \o new \o SubSeq(commands, i + 2, Len(commands))

\* the step that calls the validate routine: lines 392-394
Then1 ==
    /\ pc = "then1"
    /\ validateRuns' = validateRuns + 1
    /\ \E throws \in BOOLEAN, rv \in ReturnVals, nested \in NestedCommands :
          LET new == [k \in 1..Len(nested) |-> Cmd(2 + k, "nested", nested[k])]
              enqueued == insertAfter(queue, index, new)
          IN
          IF throws \/ ~isFunction(theSession.validate)
          THEN /\ rv = "undefined"
               /\ onFail(onQueueFailed, enqueued, index, commandToRunAfterValidation,
                         UserError, sessionStatus)
               /\ signal' = "throws"
               /\ UNCHANGED returnVal
          ELSE /\ returnVal' = rv
               /\ queue' = enqueued
               /\ index' = index + 1
               /\ pc' = commandAt(enqueued, index + 1)
               /\ UNCHANGED <<err, onQueueFailed, sessionStatus, caughtCommandErr, signal,
                              failedAt>>
    /\ UNCHANGED <<registry, store, browser, call, step, commandToRunAfterValidation,
                   isValidSession, setupRuns, path, applied, getResult, before,
                   restoredBad>>

\* a command the validate routine enqueued runs
Nested ==
    /\ pc = "nested"
    /\ \E outcome \in {"fails", "false", "other"} :
          IF outcome = "fails"
          THEN /\ Fail(UserError, sessionStatus)
               /\ signal' = "commandFails"
          ELSE /\ queue' = [queue EXCEPT ![index + 1].subject = outcome]
               /\ index' = index + 1
               /\ pc' = commandAt(queue, index + 1)
               /\ UNCHANGED <<err, onQueueFailed, sessionStatus, caughtCommandErr, signal,
                              failedAt>>
    /\ UNCHANGED <<registry, store, browser, call, step, returnVal,
                   commandToRunAfterValidation, isValidSession, setupRuns, validateRuns,
                   path, applied, getResult, before, restoredBad>>

\* cy.state('current').get('prev')?.attributes?.subject
yieldedSubject == IF index >= 1 /\ index < Len(queue) THEN queue[index].subject ELSE "undefined"

\* mutant: a routine that returns false has failed
validationErrorOnFalse(rv, yielded) ==
    IF rv \in {"false", "resolvesFalse"} \/ yielded = "false"
    THEN Err("validate_callback_false", "") ELSE NoErr

\* the error, if any, that the resume step finds in the routine's result: lines 418-453
validationError(rv, yielded) ==
    IF isPromiseLike(rv)
    THEN CASE rv = "resolvesFalse" -> Err("validate_callback_false", "promise resolved false")
           [] rv = "rejectsOther" -> Err("validate_callback_false", "promise rejected")
           [] rv = "rejectsError" -> Err("userError", "promise rejected")
           [] OTHER -> NoErr
    ELSE IF rv \in {"undefined", "cy"} /\ yielded = "false"
    THEN Err("validate_callback_false", "callback yielded false")
    ELSE NoErr

\* the ways a validate routine signals an invalid session, save a direct return of false
Signalled == {"throws", "commandFails", "promiseRejects", "promiseFalse", "yieldedFalse"}

\* How the routine's result reads as a signal, whatever the command makes of it.
signalOf(rv, yielded) ==
    CASE rv = "false" -> "returnsFalse"
      [] rv = "resolvesFalse" -> "promiseFalse"
      [] rv \in {"rejectsError", "rejectsOther"} -> "promiseRejects"
      [] rv \in {"undefined", "cy"} /\ yielded = "false" -> "yieldedFalse"
      [] OTHER -> "ok"

\* mutant: failValidation never throws
failValidationNeverThrows(s) == FALSE

\* failValidation: TRUE when it throws, FALSE when it returns !isValidSession
failValidationThrows(s) == s # "restore"

\* _commandToRunAfterValidation: lines 396-454
Then2 ==
    /\ pc = "then2"
    /\ onQueueFailed' = uninstall(onQueueFailed)
    /\ LET e == validationError(returnVal, yieldedSubject) IN
       IF caughtCommandErr
       THEN /\ isValidSession' = FALSE
            /\ pc' = afterValidation(step)
            /\ UNCHANGED <<err, sessionStatus>>
       ELSE IF e = NoErr
       THEN /\ isValidSession' = TRUE
            /\ pc' = afterValidation(step)
            /\ UNCHANGED <<err, sessionStatus>>
       ELSE IF failValidationThrows(step)
       THEN /\ err' = enhanceErr(e, step)
            /\ sessionStatus' = "failed"
            /\ pc' = "failed"
            /\ UNCHANGED isValidSession
       ELSE /\ err' = enhanceErr(e, step)
            /\ isValidSession' = FALSE
            /\ pc' = afterValidation(step)
            /\ UNCHANGED sessionStatus
    /\ queue' = << >>
    /\ index' = 0
    /\ returnVal' = "undefined"
    /\ caughtCommandErr' = FALSE
    /\ commandToRunAfterValidation' = -1
    /\ failedAt' = -1
    /\ signal' = IF caughtCommandErr THEN signal ELSE signalOf(returnVal, yieldedSubject)
    /\ UNCHANGED <<registry, store, browser, call, step, setupRuns, validateRuns, path,
                   applied, getResult, before, restoredBad>>

\* createSessionWorkflow, last step: lines 475-481
AfterCreate ==
    /\ pc = "afterCreate"
    /\ IF ~isValidSession
       THEN Fail(Err("notValidSession", ""), sessionStatus)
       ELSE /\ sessionStatus' = statusComplete(step)
            /\ pc' = "finish"
            /\ UNCHANGED <<err, onQueueFailed, queue, index, caughtCommandErr, failedAt>>
    /\ UNCHANGED <<registry, store, browser, call, step, returnVal,
                   commandToRunAfterValidation, isValidSession, history>>

\* mutant: the restore workflow never recreates
recreatesNever(isValid) == FALSE

\* what restoreSessionWorkflow's last step does with the validation result
recreates(isValid) == ~isValid

\* restoreSessionWorkflow, last step: lines 499-505.  The recovered error is dropped
\* here: validateSession yielded false in its place.
AfterRestore ==
    /\ pc = "afterRestore"
    /\ IF recreates(isValidSession)
       THEN /\ step' = "recreate"
            /\ path' = Append(path, "Recreating")
            /\ pc' = "createWorkflow"
            /\ err' = NoErr
            /\ signal' = "none"
            /\ UNCHANGED sessionStatus
       ELSE /\ sessionStatus' = "restored"
            /\ pc' = "finish"
            /\ UNCHANGED <<step, path, err, signal>>
    /\ restoredBad' = (signal \in Signalled)
    /\ UNCHANGED <<registry, store, browser, call, onQueueFailed, validation,
                   isValidSession, setupRuns, validateRuns, applied, getResult,
                   before>>

\* the command's last step: lines 540-542
Finish ==
    /\ pc = "finish"
    /\ pc' = "completed"
    /\ UNCHANGED <<registry, store, browser, call, step, sessionStatus, onQueueFailed,
                   err, validation, isValidSession, history>>

Next ==
    \/ Session
    \/ Resolve
    \/ CreateWorkflow
    \/ Setup
    \/ Capture
    \/ RestoreWorkflow
    \/ Validate
    \/ Then1
    \/ Nested
    \/ Then2
    \/ AfterCreate
    \/ AfterRestore
    \/ Finish
    \/ SpecBoundary
    \/ RunStart
    \/ TestBeforeRun

Spec == Init /\ [][Next]_vars

\* ------------------------------------------------------------------ claims
Count(seq, x) == Cardinality({i \in 1..Len(seq) : seq[i] = x})

SetupHasRun == pc \in {"capture", "validate", "then1", "nested", "then2", "afterCreate",
                       "finish", "completed"}

ValidationFailureKinds == {"userError", "validate_callback_false"}

\* how the definition supplied in the call differs from the record found
DiffersSetup == before.session.setup.text # call.setup.text
DiffersValidate ==
    \/ Truthy(before.session.validate) # Truthy(call.validate)
    \/ before.session.validate.text # call.validate.text
DiffersPersistence == before.session.cacheAcrossSpecs # call.cacheAcrossSpecs
ExpectedFlags ==
    (IF DiffersSetup THEN {"hasUniqSetupDefinition"} ELSE {})
    \cup (IF DiffersValidate THEN {"hasUniqValidateDefinition"} ELSE {})
    \cup (IF DiffersPersistence THEN {"hasUniqPersistence"} ELSE {})

\* C1: when the validation of a restored session signals a failure (a throw, a
\* rejected or false-resolving promise, a failed chained command, a false yielded
\* subject) the command does not fail there: it enters Recreating once, runs setup
\* once, validates a second time in phase recreate, ends completed with status
\* recreated when that validation passes and failed with a validation error
\* attributed to the recreated session when it signals a failure.
C1_RestoredInvalidRecreates ==
    /\ (step = "restore" /\ signal \in Signalled) =>
            /\ pc \in {"then2", "afterRestore"}
            /\ err.isRecovered
            /\ setupRuns = 0
    /\ restoredBad =>
            /\ step = "recreate"
            /\ Count(path, "Recreating") = 1
            /\ setupRuns <= 1
            /\ (SetupHasRun => setupRuns = 1)
            /\ (signal # "none" => validateRuns = 2)
            /\ (pc = "completed" => sessionStatus = "recreated" /\ signal \notin Signalled)
            /\ (signal = "ok" => pc \in {"afterCreate", "finish", "completed"})
            /\ (signal \in Signalled =>
                    /\ pc = "failed"
                    /\ err.kind \in ValidationFailureKinds
                    /\ err.phase = "recreated"
                    /\ ~err.isRecovered)

C1_Witness ==
    restoredBad /\ pc = "completed" /\ sessionStatus = "recreated" /\ setupRuns = 1

\* C2: when the validation of a created or recreated session signals a failure the
\* command fails at once with the error attributed to that phase: it does not
\* enter Recreating (again) and setup has run exactly once in the call.
C2_CreatedInvalidFails ==
    (step \in {"create", "recreate"} /\ signal \in Signalled) =>
        /\ pc = "failed"
        /\ err.kind \in ValidationFailureKinds
        /\ err.phase = (IF step = "create" THEN "created" ELSE "recreated")
        /\ ~err.isRecovered
        /\ setupRuns = 1
        /\ Count(path, "Creating") = 1
        /\ Count(path, "Recreating") = (IF step = "recreate" THEN 1 ELSE 0)

C2_Witness ==
    step = "create" /\ signal = "promiseFalse" /\ pc = "failed" /\ setupRuns = 1

\* C3 as stated: a second call with the arguments of a completed first call of the
\* same spec raises no error, takes the Restore path and never runs setup.
C3_SecondCallNeverRunsSetup ==
    before.repeated =>
        /\ pc # "raised"
        /\ (Len(path) >= 2 => path[2] = "Restoring")
        /\ setupRuns = 0

\* C3 as amended: the second call raises no error, finds the record hydrated, asks
\* the store for nothing and takes the Restore path; setup runs in it only when the
\* validation of the restored session signals a failure, and then once.
C3_SecondCallRestores ==
    before.repeated =>
        /\ pc # "raised"
        /\ before.session.hydrated
        /\ getResult \in {"none", "notCalled"}
        /\ (Len(path) >= 2 => path[2] = "Restoring")
        /\ (setupRuns > 0 => restoredBad /\ setupRuns = 1)

C3_Witness ==
    before.repeated /\ pc = "completed" /\ sessionStatus = "restored" /\ setupRuns = 0

\* C4 as stated: when the record is not hydrated and the store holds a session whose
\* setup text is that of the definition, setup is never invoked in the call.
C4_MatchNeverRunsSetup ==
    getResult = "match" =>
        /\ theSession.hydrated
        /\ (Len(path) >= 2 => path[2] = "Restoring")
        /\ setupRuns = 0

\* C4 as amended: the stored state is adopted, the record is hydrated and the
\* Restore path is taken; setup runs only when the validation of the restored
\* session signals a failure, and then once.
C4_MatchRestores ==
    getResult = "match" =>
        /\ ~before.session.hydrated
        /\ theSession.hydrated
        /\ (setupRuns = 0 => theSession.data = "stored")
        /\ pc # "createWorkflow" \/ restoredBad
        /\ (Len(path) >= 2 => path[2] = "Restoring")
        /\ (setupRuns > 0 => restoredBad /\ setupRuns = 1)

C4_Witness ==
    /\ getResult = "match"
    /\ pc = "completed"
    /\ sessionStatus = "restored"
    /\ theSession.data = "stored"

\* C5: when the record is not hydrated and the store gives nothing usable (nothing
\* found, an error, or a session saved under another setup text) the Create path is
\* taken and setup runs, the stored state is neither adopted nor applied, and the
\* lookup itself never fails the command.
C5_NoUsableStoredStateCreates ==
    getResult \in {"notFound", "error", "mismatch"} =>
        /\ ~before.session.hydrated
        /\ step = "create"
        /\ pc \notin {"restoreWorkflow", "afterRestore"}
        /\ (Len(path) >= 2 => path[2] = "Creating")
        /\ (pc = "failed" => Len(path) >= 2)
        /\ (SetupHasRun => setupRuns = 1)
        /\ ~applied
        /\ theSession.data \in {before.session.data, "captured"}
        /\ (theSession.hydrated => theSession.data = "captured")

C5_Witness ==
    getResult = "mismatch" /\ pc = "completed" /\ sessionStatus = "created"

\* C6: for an id registered for the spec, a call with a setup routine raises
\* duplicateId exactly when its definition differs from the record in setup text,
\* in validate (presence or text) or in cacheAcrossSpecs, and the error's flags are
\* exactly the properties that differ.
C6_DuplicateIffDiffers ==
    (before.registered /\ isFunction(call.setup)) =>
        /\ before.present
        /\ (pc = "raised") <=> (ExpectedFlags # {})
        /\ (pc = "raised" =>
                /\ err.kind = "duplicateId"
                /\ err.flags = ExpectedFlags
                /\ theSession = before.session)

C6_Witness ==
    /\ before.registered
    /\ pc = "raised"
    /\ err.kind = "duplicateId"
    /\ err.flags = {"hasUniqPersistence"}

\* C7: once the run-start hook of a spec has run, the ids registered for the spec
\* are exactly those of the records flagged cacheAcrossSpecs; a record without the
\* flag is not registered, not hydrated and has no saved data to restore.
C7_RunStartRegistersCached ==
    pc = "idle" =>
        /\ registeredSessions =
                {i \in DOMAIN activeSessions : activeSessions[i].cacheAcrossSpecs}
        /\ \A i \in DOMAIN activeSessions :
                ~activeSessions[i].cacheAcrossSpecs =>
                    ~activeSessions[i].hydrated /\ ~store[i].found

C7_Witness ==
    /\ pc = "idle"
    /\ \E i \in DOMAIN activeSessions :
            /\ activeSessions[i].cacheAcrossSpecs
            /\ isString(activeSessions[i].setup)
            /\ i \in registeredSessions

\* the call found a cacheAcrossSpecs record carried over from a prior spec
FoundPriorSpecRecord ==
    /\ before.present
    /\ before.session.cacheAcrossSpecs
    /\ isString(before.session.setup)
    /\ isFunction(call.setup)

\* C8 as stated: a call that finds a cross-spec record of a prior spec and differs
\* from it in setup text (not in cacheAcrossSpecs) raises no duplicateId, and the
\* record's routines are replaced by the ones supplied.
C8_PriorSpecRecordRedefined ==
    (FoundPriorSpecRecord /\ DiffersSetup /\ ~DiffersPersistence) =>
        /\ pc # "raised"
        /\ theSession.setup = call.setup
        /\ theSession.validate = call.validate

\* C8 as amended: the run-start hook has registered such a record, so the call
\* raises duplicateId when it differs in setup text, validate or cacheAcrossSpecs
\* and leaves the record alone; when nothing differs the record's textual setup
\* and validate are replaced in place by the routines supplied.
C8_PriorSpecRecordChecked ==
    FoundPriorSpecRecord =>
        /\ before.registered
        /\ (pc = "raised") <=> (ExpectedFlags # {})
        /\ (pc = "raised" =>
                /\ err.kind = "duplicateId"
                /\ (DiffersSetup => "hasUniqSetupDefinition" \in err.flags)
                /\ theSession = before.session)
        /\ (pc # "raised" =>
                /\ theSession.setup = call.setup
                /\ theSession.validate = call.validate)

C8_Witness ==
    /\ FoundPriorSpecRecord
    /\ isString(before.session.validate)
    /\ pc = "resolving"
    /\ theSession.setup = call.setup
    /\ theSession.validate = call.validate

\* C9 as stated: a call without a setup routine for an id defined and registered
\* for the spec raises no wrongArgSetup and goes on with the record.
C9_BareLookupPermitted ==
    (before.present /\ before.registered /\ ~Truthy(call.setup)) => pc # "raised"

\* C9 as amended: a call without a setup routine raises wrongArgSetup whether or
\* not a session with that id is defined, and leaves the registry as it was.
C9_SetupAlwaysRequired ==
    (call # NoCall /\ ~Truthy(call.setup)) =>
        /\ pc = "raised"
        /\ err.kind = "wrongArgSetup"
        /\ before.present = hasActiveSession(call.id)
        /\ (before.present => theSession = before.session)
        /\ before.registered = (call.id \in registeredSessions)

C9_Witness ==
    /\ before.present
    /\ before.registered
    /\ ~Truthy(call.setup)
    /\ pc = "raised"
    /\ err.kind = "wrongArgSetup"

\* C10: a validate routine that signals failure with false - returned directly,
\* as the resolution of a promise, or as the subject its last command yields - ends
\* in a validate_callback_false error.
C10_FalseIsValidationFailure ==
    signal \in {"returnsFalse", "promiseFalse", "yieldedFalse"} =>
        err.kind = "validate_callback_false"

\* C11: an error is marked recovered exactly when it arose while validating a
\* restored session.  A failure the handler intercepts or the resume step finds in
\* phase restore is marked recovered and the command does not fail on it; a failure
\* of setup (create or recreate) or of the validation of a created or recreated
\* session is never marked recovered and ends the command failed.
C11_RecoveredIffRestoredValidation ==
    /\ err.isRecovered =>
            /\ step = "restore"
            /\ err.phase = "restored"
            /\ Count(path, "Validating") = 1
            /\ pc \in {"then2", "afterRestore", "outside"}
    /\ (step = "restore" /\ (signal \in Signalled \/ failedAt # -1)) =>
            /\ err.isRecovered
            /\ pc # "failed"
    /\ (pc = "failed" \/ step \in {"create", "recreate"}) => ~err.isRecovered
    /\ err.phase = "creating" => pc = "failed" /\ sessionStatus = "failed"
    /\ (step \in {"create", "recreate"} /\ (signal \in Signalled \/ failedAt # -1)) =>
            pc = "failed" /\ sessionStatus = "failed"

C11_Witness ==
    /\ step = "restore"
    /\ signal = "commandFails"
    /\ err.isRecovered
    /\ caughtCommandErr
    /\ pc = "then2"

\* the cursor position of the resume step in the queue, -1 when it is not there
ResumeAt ==
    LET hits == {i \in 1..Len(queue) : queue[i].name = "then2"}
    IN IF hits = {} THEN -1 ELSE (CHOOSE i \in hits : TRUE) - 1

Skipped == {i \in 1..Len(queue) : queue[i].skipped}

\* C12: when the handler intercepts a failure of the validation of a restored
\* session, the commands skipped are exactly those from the failing command up to
\* but not including the resume step that are not flagged restore-within; the
\* resume step is not skipped and runs next.  No command is skipped otherwise.
C12_SkipsExactlyBetween ==
    /\ (caughtCommandErr /\ ResumeAt # -1) =>
            /\ step = "restore"
            /\ 0 <= failedAt /\ failedAt < ResumeAt
            /\ Skipped = {i \in 1..Len(queue) :
                            /\ failedAt <= i - 1
                            /\ i - 1 < ResumeAt
                            /\ ~queue[i].restoreWithin}
            /\ index = ResumeAt
            /\ pc = "then2"
    /\ Skipped # {} => caughtCommandErr /\ ResumeAt # -1

C12_Witness ==
    /\ caughtCommandErr
    /\ pc = "then2"
    /\ \E i \in Skipped, j \in 1..Len(queue) :
            /\ queue[j].restoreWithin
            /\ ~queue[j].skipped
            /\ i < j
            /\ j - 1 < ResumeAt

\* C13: whenever the handler has rewritten the cursor, the cursor is at a position
\* inside the queue that is not before the position it had when the step failed.
C13_CursorNeverBackward ==
    caughtCommandErr =>
        /\ index >= failedAt
        /\ index \in 0..(Len(queue) - 1)

\* C14: when the handler is called in phase restore and the lookup of the resume
\* step finds nothing, no command is skipped, the cursor stays where it was, the
\* error is not marked recovered and the command fails with it.
C14_NotFoundPropagates ==
    (step = "restore" /\ failedAt # -1
        /\ findIndex(queue, commandToRunAfterValidation) = -1) =>
        /\ Skipped = {}
        /\ index = failedAt
        /\ ~err.isRecovered
        /\ pc = "failed"

\* C15: the handler installed for a validation is installed only while the
\* validation steps run; once the resume step has run or the handler has been
\* called - session valid, false signalled, promise rejected, chained command
\* failed, in each of restore, create and recreate - no handler is installed.
C15_ValidationHandlerUninstalled ==
    /\ onQueueFailed.kind = "validate" =>
            /\ pc \in {"then1", "nested", "then2"}
            /\ onQueueFailed.step = step
            /\ ~caughtCommandErr
    /\ (validateRuns > 0 /\ pc \in {"afterCreate", "afterRestore", "finish", "completed"}) =>
            onQueueFailed = NoHandler
    /\ failedAt # -1 => onQueueFailed = NoHandler
    /\ (signal # "none" /\ pc = "failed") => onQueueFailed = NoHandler

C15_Witness ==
    /\ step = "recreate"
    /\ signal = "promiseRejects"
    /\ pc = "failed"
    /\ onQueueFailed = NoHandler

\* C16: when a session command has completed or failed, no queue failure handler
\* is installed.
C16_NoHandlerAfterWorkflow ==
    pc \in {"completed", "failed"} => onQueueFailed = NoHandler

\* C17: when a command that found its record not hydrated fails while creating the
\* session - in setup, in the snapshot or in the save - the record is still not
\* hydrated.
C17_HydratedOnlyAfterSave ==
    (pc = "failed" /\ step = "create" /\ ~before.session.hydrated) =>
        ~theSession.hydrated

WorkflowPaths ==
    {<<"Resolving", "Creating", "Validating">>,
     <<"Resolving", "Restoring", "Validating">>,
     <<"Resolving", "Restoring", "Validating", "Recreating", "Creating", "Validating">>}

IsPrefix(p, q) == Len(p) <= Len(q) /\ p = SubSeq(q, 1, Len(p))

\* C18: the phases a command enters are a prefix of Resolving, Creating, Validating
\* or of Resolving, Restoring, Validating, Recreating, Creating, Validating (a step
\* that fails ends the command where it is); Recreating is entered at most once and
\* only after the validation of the restored session; setup runs at most once and
\* validate at most twice; a completed command has gone through a whole path.
C18_WorkflowTransitions ==
    /\ \E q \in WorkflowPaths : IsPrefix(path, q)
    /\ Count(path, "Recreating") <= 1
    /\ setupRuns <= Count(path, "Creating")
    /\ setupRuns <= 1
    /\ validateRuns <= Count(path, "Validating")
    /\ validateRuns <= 2
    /\ (step = "recreate") <=> (Count(path, "Recreating") = 1)
    /\ pc = "completed" =>
            /\ path \in WorkflowPaths
            /\ sessionStatus = statusComplete(step)

C18_Witness ==
    /\ path = <<"Resolving", "Restoring", "Validating", "Recreating", "Creating",
                "Validating">>
    /\ setupRuns = 1
    /\ validateRuns = 2
    /\ pc = "completed"

C20_ValidationReduction ==
    /\ (pc \in {"afterCreate", "afterRestore"} /\ ~Truthy(theSession.validate)) =>
            /\ isValidSession
            /\ validateRuns = 0
            /\ queue = << >>
            /\ onQueueFailed.kind # "validate"
            /\ signal = "none"
    /\ (pc \in {"afterCreate", "afterRestore"} /\ Truthy(theSession.validate)) =>
            (isValidSession <=> signal \in {"ok", "returnsFalse"})
    /\ signal \in {"ok", "returnsFalse"} =>
            /\ pc \in {"afterCreate", "afterRestore", "finish", "completed"}
            /\ isValidSession
            /\ err = NoErr
    /\ signal \in {"throws", "commandFails"} => err.kind = "userError"
    /\ signal = "promiseFalse" =>
            err.kind = "validate_callback_false" /\ err.reason = "promise resolved false"
    /\ signal = "promiseRejects" =>
            err.kind \in ValidationFailureKinds /\ err.reason = "promise rejected"
    /\ signal = "yieldedFalse" =>
            err.kind = "validate_callback_false" /\ err.reason = "callback yielded false"
    /\ signal \in Signalled => pc \in {"then2", "afterRestore", "failed"}

C20_Witness ==
    /\ pc = "afterRestore"
    /\ signal = "yieldedFalse"
    /\ ~isValidSession
    /\ err.reason = "callback yielded false"

====
